---- MODULE Spec2Model ----
(***************************************************************************)
(* DataSelector: the selection / zoom state machine of the two plot        *)
(* variants, PlotForDataSelector + UIforSelector ("fixed") and             *)
(* DataSelector ("variable").  Every event handler and every completion    *)
(* callback of a d3.json fetch is one atomic action (JavaScript runs them  *)
(* to completion on the single UI thread).                                 *)
(*                                                                         *)
(* Dates are integers (milliseconds since the epoch) and strings are       *)
(* sequences of UTF-16 code units.  A Map is a function on its keys and a  *)
(* Set is a set: their insertion order is not kept, and where the code     *)
(* iterates a Map whose order can matter (the export) every order is       *)
(* allowed.                                                                *)
(***************************************************************************)
EXTENDS Integers, Sequences, FiniteSets, Bags, TLC

VARIABLES
    variant,               \* "fixed" (UIforSelector) or "variable" (DataSelector)
    selector,              \* elements.selector.value
    previousCompound,      \* this.previousCompound
    selectedDates,         \* this.selectedDates: the compound whose Set object it references
    selectionsByCompound,  \* Map compound -> Set of date-keys
    selectionsByDate,      \* Map date-key -> Set of compounds
    dataXDefault,          \* this.dataXDefault (name of the x accessor), variable variant
    dataYDefault,          \* this.dataYDefault (name of the y accessor), variable variant
    zoomHistory,           \* fixed: one list of limits; variable: compound -> xy -> list
    limits,                \* this.limits (NoLimits before the first callback); this.xScale,
                           \* this.yScale and the four limit inputs are assigned with it
    plotted,               \* what the circles show: compound and accessors of the last callback
    pending,               \* fetches in flight: a bag of render calls whose promise is unresolved
    lastOp,                \* the handler or callback that ran last
    threw,                 \* TRUE iff the last handler or callback ended in a TypeError
    download               \* content handed to downloadFile by the last handler, <<>> if none

vars == <<variant, selector, previousCompound, selectedDates,
          selectionsByCompound, selectionsByDate, dataXDefault, dataYDefault,
          zoomHistory, limits, plotted, pending, lastOp, threw, download>>

(***************************************************************************)
(* Bounds of the model.                                                    *)
(***************************************************************************)
MaxPending == 2     \* fetches in flight at once
MaxZoom == 1        \* entries a zoom stack holds below the limits in use
MaxCalls == 3       \* updateClicked calls in a sequence that is tried
MaxDepth == 2       \* entries a zoom stack holds below the limits in use, in ZoomSpec
MaxUndo == 2        \* zooms in a sequence that is tried and undone

(***************************************************************************)
(* Strings.                                                                *)
(***************************************************************************)
Digit(n) == 48 + n
Pad2(n) == <<Digit(n \div 10), Digit(n % 10)>>
Pad3(n) == <<Digit(n \div 100), Digit((n \div 10) % 10), Digit(n % 10)>>
Pad4(n) == <<Digit(n \div 1000), Digit((n \div 100) % 10), Digit((n \div 10) % 10), Digit(n % 10)>>

CharSpace == 32
CharComma == 44
CharDash == 45
CharColon == 58
CharT == 84

\* a < b on strings, as the < operator of JavaScript compares them (code units)
RECURSIVE StrLess(_, _)
StrLess(a, b) ==
    IF b = <<>> THEN FALSE
    ELSE IF a = <<>> THEN TRUE
    ELSE IF Head(a) # Head(b) THEN Head(a) < Head(b)
    ELSE StrLess(Tail(a), Tail(b))

\* Date.prototype.toISOString for years 1970..9999: "YYYY-MM-DDTHH:MM:SS.sssZ"
CivilYoe(doe) == (doe - doe \div 1460 + doe \div 36524 - doe \div 146096) \div 365
CivilDoy(doe) == doe - (365 * CivilYoe(doe) + CivilYoe(doe) \div 4 - CivilYoe(doe) \div 100)
CivilMp(doe) == (5 * CivilDoy(doe) + 2) \div 153
CivilDay(doe) == CivilDoy(doe) - (153 * CivilMp(doe) + 2) \div 5 + 1
CivilMonth(doe) == IF CivilMp(doe) < 10 THEN CivilMp(doe) + 3 ELSE CivilMp(doe) - 9
CivilYear(z) ==
    LET era == z \div 146097
        doe == z - era * 146097
    IN  CivilYoe(doe) + era * 400 + (IF CivilMonth(doe) <= 2 THEN 1 ELSE 0)

\* the ISO string of the instant rem milliseconds into day days of the epoch
ISOString(days, rem) ==
    LET z    == days + 719468
        doe  == z - (z \div 146097) * 146097
    IN  Pad4(CivilYear(z)) \o <<CharDash>> \o Pad2(CivilMonth(doe)) \o <<CharDash>>
        \o Pad2(CivilDay(doe)) \o <<CharT>>
        \o Pad2(rem \div 3600000) \o <<CharColon>> \o Pad2((rem \div 60000) % 60)
        \o <<CharColon>> \o Pad2((rem \div 1000) % 60) \o <<46>> \o Pad3(rem % 1000) \o <<90>>

toISOString(ms) == ISOString(ms \div 86400000, ms % 86400000)

\* String.prototype.replace('T', " "): the first T only
RECURSIVE ReplaceT(_)
ReplaceT(s) ==
    IF s = <<>> THEN <<>>
    ELSE IF Head(s) = CharT THEN <<CharSpace>> \o Tail(s)
    ELSE <<Head(s)>> \o ReplaceT(Tail(s))

\* formatISODate(date, salt): a salt of <<>> stands for a falsy salt (null,
\* undefined, the empty string)
formatISOString(isoString, salt) ==
    LET iso == ReplaceT(isoString)
        cut == SubSeq(iso, 1, Len(iso) - 8)
    IN  IF salt # <<>> THEN cut \o <<CharSpace>> \o salt ELSE cut

formatISODate(date, salt) == formatISOString(toISOString(date), salt)

(***************************************************************************)
(* Configuration and data files (src/example/config.js gives the shape;    *)
(* the values are small so that every case is reached).                    *)
(***************************************************************************)
compounds == <<"ethane", "propane">>
Compounds == {compounds[i] : i \in 1..Len(compounds)}
xOptions == <<"date", "meas_date">>
yOptions == <<"MR", "day">>
XNames == {xOptions[i] : i \in 1..Len(xOptions)}
YNames == {yOptions[i] : i \in 1..Len(yOptions)}
UTCoffset == -2
yRound == 50
xZoomLimit == 20000

\* a field that the JSON object does not have: d.value is undefined
Missing == -1000000000

\* one JSON array per compound; date and meas_date are epoch seconds, a
\* sample_ID of <<>> is a missing field.  The dates of all points with a value
\* fall in one minute; the last point of ethane alone has a sample_ID, so
\* that in the fixed variant ethane has a date-key that no point of propane
\* has.  The last point of each compound has no value and is drawn only
\* against the y attribute day; its date falls in the next minute, and it
\* was measured in the minute of the other dates
JSONFiles ==
    [c \in Compounds |->
        IF c = "ethane" THEN
            << [date |-> 7800, meas_date |-> 7920, value |-> 30, day |-> 1, sample_ID |-> <<>>],
               [date |-> 7830, meas_date |-> 7890, value |-> 40, day |-> 2, sample_ID |-> <<>>],
               [date |-> 7850, meas_date |-> 7980, value |-> 80, day |-> 3, sample_ID |-> <<55>>],
               [date |-> 7862, meas_date |-> 7859, value |-> Missing, day |-> 4, sample_ID |-> <<>>] >>
        ELSE
            << [date |-> 7800, meas_date |-> 7890, value |-> 30, day |-> 1, sample_ID |-> <<>>],
               [date |-> 7850, meas_date |-> 7980, value |-> 80, day |-> 2, sample_ID |-> <<>>],
               [date |-> 7862, meas_date |-> 7859, value |-> Missing, day |-> 3, sample_ID |-> <<>>] >>]

\* render: d.date = new Date((d.date + (60 * 60 * this.UTCoffset)) * 1000); the
\* variable variant converts every field named in xOptions, the fixed one d.date
EpochToSecondsNoOffset(e) == e
EpochToSeconds(e) == e + (60 * 60 * UTCoffset)
EpochToDate(e) == EpochToSeconds(e) * 1000

\* formatISODate(EpochToDate(e), salt) without forming the count of
\* milliseconds, which does not fit 32 bits for the dates of this century:
\* the instant of s seconds is (s % 86400) * 1000 ms into day s \div 86400
keyOfEpoch(e, salt) ==
    formatISOString(ISOString(EpochToSeconds(e) \div 86400,
                              (EpochToSeconds(e) % 86400) * 1000), salt)

ConvertPoint(v, d) ==
    [d EXCEPT !.date = EpochToDate(d.date),
              !.meas_date = IF v = "variable" THEN EpochToDate(d.meas_date) ELSE d.meas_date]

LoadData(v, c) == [i \in 1..Len(JSONFiles[c]) |-> ConvertPoint(v, JSONFiles[c][i])]

\* the accessors of xOptions / yOptions
Attr(name, d) ==
    CASE name = "date" -> d.date
      [] name = "meas_date" -> d.meas_date
      [] name = "MR" -> d.value
      [] name = "day" -> d.day

\* d[this.toolTipSalt]: the fixed variant is configured with the field
\* sample_ID; DataSelector never assigns this.toolTipSalt, so its lookup is
\* d[undefined], which is undefined
SaltOf(v, d) == IF v = "fixed" THEN d.sample_ID ELSE <<>>

\* the date-key updateClicked stores for a point: always from d.date
KeyTable ==
    [v \in {"fixed", "variable"} |-> [c \in Compounds |->
        [i \in 1..Len(JSONFiles[c]) |->
            formatISODate(LoadData(v, c)[i].date, SaltOf(v, LoadData(v, c)[i]))]]]

\* the key render uses to find the selected points: from the active x accessor
\* in the variable variant, from d.date in the fixed one
MarkTable ==
    [v \in {"fixed", "variable"} |-> [x \in XNames |-> [c \in Compounds |->
        [i \in 1..Len(JSONFiles[c]) |->
            formatISODate(IF v = "variable" THEN Attr(x, LoadData(v, c)[i])
                                           ELSE LoadData(v, c)[i].date,
                          SaltOf(v, LoadData(v, c)[i]))]]]]

(***************************************************************************)
(* Map and Set objects.                                                    *)
(***************************************************************************)
Range(s) == {s[i] : i \in 1..Len(s)}

EmptyMap == [k \in {} |-> {}]
MapKeys(m) == DOMAIN m
MapHas(m, k) == k \in DOMAIN m
MapGet(m, k) == m[k]
MapSet(m, k, v) == [x \in DOMAIN m \cup {k} |-> IF x = k THEN v ELSE m[x]]
MapDelete(m, k) == [x \in DOMAIN m \ {k} |-> m[x]]

\* the elements of a set of strings as a sequence, ascending
RECURSIVE SortedKeys(_)
SortedKeys(S) ==
    IF S = {} THEN <<>>
    ELSE LET least == CHOOSE k \in S : \A j \in S : j = k \/ StrLess(k, j)
         IN  <<least>> \o SortedKeys(S \ {least})

(***************************************************************************)
(* The selection store: st.byC is selectionsByCompound, st.byD is          *)
(* selectionsByDate, st.threw is set once a TypeError was raised (what     *)
(* follows in the handler is then not executed).                           *)
(***************************************************************************)
Store(byC, byD) == [byC |-> byC, byD |-> byD, threw |-> FALSE]

\* CommitOne without compoundSet.add(d)
CommitOneLedgerOnly(st, compound, d) ==
    LET withEntry == IF MapHas(st.byD, d) THEN st.byD ELSE MapSet(st.byD, d, {})
    IN  [st EXCEPT !.byD = MapSet(withEntry, d, MapGet(withEntry, d) \cup {compound})]

\* one iteration of the loop of commitSelections
CommitOne(st, compound, d) ==
    LET withEntry == IF MapHas(st.byD, d) THEN st.byD ELSE MapSet(st.byD, d, {})
    IN  [st EXCEPT !.byD = MapSet(withEntry, d, MapGet(withEntry, d) \cup {compound}),
                   !.byC = [st.byC EXCEPT ![compound] = @ \cup {d}]]

RECURSIVE CommitLoop(_, _, _)
CommitLoop(st, compound, ds) ==
    IF ds = <<>> THEN st
    ELSE CommitLoop(CommitOne(st, compound, Head(ds)), compound, Tail(ds))

\* commitSelections adding nothing
commitSelectionsNothing(st, sel, compound) == st

\* commitSelections setting each entry to a new Set holding compound alone
commitSelectionsOverwrite(st, sel, compound) ==
    IF st.threw THEN st
    ELSE [st EXCEPT !.byD = [k \in DOMAIN st.byD \cup st.byC[sel] |->
                                IF k \in st.byC[sel] THEN {compound} ELSE st.byD[k]],
                    !.byC = [st.byC EXCEPT ![compound] = @ \cup st.byC[sel]]]

\* commitSelections(compound), with this.selectedDates referencing the set of sel
commitSelections(st, sel, compound) ==
    IF st.threw THEN st ELSE CommitLoop(st, compound, SortedKeys(st.byC[sel]))

\* updateClicked removing a present key whatever removeOnDupe is
updateClickedToggle(st, sel, prev, key, removeOnDupe) ==
    IF st.threw THEN st
    ELSE IF key \in st.byC[sel] THEN
        LET deleted == [st EXCEPT !.byC = [st.byC EXCEPT ![sel] = @ \ {key}]]
        IN  IF ~MapHas(st.byD, key) THEN [deleted EXCEPT !.threw = TRUE]
            ELSE LET rest == MapGet(st.byD, key) \ {prev}
                     pruned == IF Cardinality(rest) = 0 THEN MapDelete(st.byD, key)
                               ELSE MapSet(st.byD, key, rest)
                 IN  commitSelections([deleted EXCEPT !.byD = pruned], sel, prev)
    ELSE commitSelections([st EXCEPT !.byC = [st.byC EXCEPT ![sel] = @ \cup {key}]], sel, prev)

\* updateClicked removing the key from this.selectedDates only
updateClickedKeepLedger(st, sel, prev, key, removeOnDupe) ==
    IF st.threw THEN st
    ELSE IF key \in st.byC[sel] /\ removeOnDupe THEN
        commitSelections([st EXCEPT !.byC = [st.byC EXCEPT ![sel] = @ \ {key}]], sel, prev)
    ELSE commitSelections([st EXCEPT !.byC = [st.byC EXCEPT ![sel] = @ \cup {key}]], sel, prev)

\* updateClicked without the deletion of an entry that became empty
updateClickedNoPrune(st, sel, prev, key, removeOnDupe) ==
    IF st.threw THEN st
    ELSE IF key \in st.byC[sel] /\ removeOnDupe THEN
        LET deleted == [st EXCEPT !.byC = [st.byC EXCEPT ![sel] = @ \ {key}]]
        IN  IF ~MapHas(st.byD, key) THEN [deleted EXCEPT !.threw = TRUE]
            ELSE commitSelections([deleted EXCEPT !.byD =
                                      MapSet(st.byD, key, MapGet(st.byD, key) \ {prev})],
                                  sel, prev)
    ELSE commitSelections([st EXCEPT !.byC = [st.byC EXCEPT ![sel] = @ \cup {key}]], sel, prev)

\* updateClicked(item, removeOnDupe) for the point whose stored key is key
updateClicked(st, sel, prev, key, removeOnDupe) ==
    IF st.threw THEN st
    ELSE IF key \in st.byC[sel] /\ removeOnDupe THEN
        LET deleted == [st EXCEPT !.byC = [st.byC EXCEPT ![sel] = @ \ {key}]]
        IN  IF ~MapHas(st.byD, key) THEN [deleted EXCEPT !.threw = TRUE]
            ELSE LET rest == MapGet(st.byD, key) \ {prev}
                     pruned == IF Cardinality(rest) = 0 THEN MapDelete(st.byD, key)
                               ELSE MapSet(st.byD, key, rest)
                 IN  commitSelections([deleted EXCEPT !.byD = pruned], sel, prev)
    ELSE commitSelections([st EXCEPT !.byC = [st.byC EXCEPT ![sel] = @ \cup {key}]], sel, prev)

\* points.each(... updateClicked(n[i], removeOnDupe)) over the keys of the points
RECURSIVE ClickEach(_, _, _, _, _)
ClickEach(st, sel, prev, keys, removeOnDupe) ==
    IF keys = <<>> THEN st
    ELSE ClickEach(updateClicked(st, sel, prev, Head(keys), removeOnDupe),
                   sel, prev, Tail(keys), removeOnDupe)

\* CleanOne without the deletion of an entry left empty
CleanOneNoPrune(st, compound, d) ==
    IF MapHas(st.byD, d) THEN
        [st EXCEPT !.byD = MapSet(st.byD, d, MapGet(st.byD, d) \ {compound})]
    ELSE st

\* one iteration of the loop of cleanPlot
CleanOne(st, compound, d) ==
    IF MapHas(st.byD, d) THEN
        LET rest == MapGet(st.byD, d) \ {compound}
        IN  [st EXCEPT !.byD = IF Cardinality(rest) = 0 THEN MapDelete(st.byD, d)
                                ELSE MapSet(st.byD, d, rest)]
    ELSE st

RECURSIVE CleanLoop(_, _, _)
CleanLoop(st, compound, ds) ==
    IF ds = <<>> THEN st
    ELSE CleanLoop(CleanOne(st, compound, Head(ds)), compound, Tail(ds))

\* cleanPlot deleting the entry of each key of the compound outright
cleanPlotDropEntries(st, compound) ==
    [st EXCEPT !.byD = [k \in DOMAIN st.byD \ st.byC[compound] |-> st.byD[k]],
               !.byC = [st.byC EXCEPT ![compound] = {}]]

\* cleanPlot(compound) up to its render call
cleanPlotSelections(st, compound) ==
    [CleanLoop(st, compound, SortedKeys(st.byC[compound]))
        EXCEPT !.byC = [st.byC EXCEPT ![compound] = {}]]


(***************************************************************************)
(* Axis limits and scales.  A limit value is an integer; Null is null.     *)
(* The four values read from the limit inputs are strings, which matters   *)
(* for truthiness ("0" is truthy, 0 is not) and for ===; str records it.   *)
(***************************************************************************)
Null == -1000000000

margins == [top |-> 1, bottom |-> 1, left |-> 1, right |-> 1]
width == 8
height == 8
graphWidth == width - (margins.left + margins.right)
graphHeight == height - (margins.top + margins.bottom)

\* range of xScale and of yScale
XRange == <<margins.left, graphWidth - margins.right>>
YRange == <<graphHeight - margins.top, margins.bottom>>

Limits(xMin, xMax, yMin, yMax, str) ==
    [xMin |-> xMin, xMax |-> xMax, yMin |-> yMin, yMax |-> yMax, str |-> str]
NoLimits == Limits(Null, Null, Null, Null, FALSE)

\* the arguments of one render call
Fetch(compound, l) == [compound |-> compound, args |-> l]

Min(S) == CHOOSE x \in S : \A y \in S : x <= y
Max(S) == CHOOSE x \in S : \A y \in S : x >= y
CeilDiv(a, b) == -((-a) \div b)
TruncDiv(n, d) == IF n >= 0 THEN n \div d ELSE -((-n) \div d)

\* the values d3.min and d3.max see: Math.min(undefined) is NaN, which they skip
AttrValues(data, name) == {Attr(name, data[i]) : i \in 1..Len(data)} \ {Missing}

\* !v for a limit argument: null, or the number 0
Falsy(v, str) == v = Null \/ (~str /\ v = 0)

\* createScalesFixed with the data maximum as yMax, not rounded up
createScalesFixedUnrounded(data, a) ==
    Limits(IF Falsy(a.xMin, TRUE) THEN Min(AttrValues(data, "date")) ELSE a.xMin,
           IF Falsy(a.xMax, TRUE) THEN Max(AttrValues(data, "date")) ELSE a.xMax,
           IF Falsy(a.yMin, a.str) THEN 0 ELSE a.yMin,
           IF Falsy(a.yMax, a.str) THEN Max(AttrValues(data, "MR")) ELSE a.yMax,
           a.str /\ ~Falsy(a.yMin, a.str) /\ ~Falsy(a.yMax, a.str))

\* PlotForDataSelector.createScales: the limits it returns
createScalesFixed(data, a) ==
    Limits(IF Falsy(a.xMin, TRUE) THEN Min(AttrValues(data, "date")) ELSE a.xMin,
           IF Falsy(a.xMax, TRUE) THEN Max(AttrValues(data, "date")) ELSE a.xMax,
           IF Falsy(a.yMin, a.str) THEN 0 ELSE a.yMin,
           IF Falsy(a.yMax, a.str) THEN CeilDiv(Max(AttrValues(data, "MR")), yRound) * yRound
           ELSE a.yMax,
           a.str /\ ~Falsy(a.yMin, a.str) /\ ~Falsy(a.yMax, a.str))

\* DataSelector.processAxis for the y axis is called without round, which
\* defaults to 1
processAxisRound == 1

joinXYStrings(x, y) == <<x, y>>

areLimitsEqual(lim1, lim2) ==
    /\ lim1.xMin = lim2.xMin
    /\ lim1.xMax = lim2.xMax
    /\ lim1.yMin = lim2.yMin /\ lim1.yMax = lim2.yMax /\ lim1.str = lim2.str

\* DataSelector.createScales up to the limits object: arguments that are all
\* given are used, otherwise the top of the stack replaces all four
createScalesArgs(a, limitStack) ==
    IF ~a.str /\ (a.xMin = Null \/ a.xMax = Null \/ a.yMin = Null \/ a.yMax = Null)
       /\ Len(limitStack) # 0
    THEN limitStack[Len(limitStack)]
    ELSE a

createScalesVariable(data, a, limitStack, xAttr, yAttr) ==
    LET b == createScalesArgs(a, limitStack)
    IN  Limits(IF Falsy(b.xMin, TRUE) THEN Min(AttrValues(data, xAttr)) ELSE b.xMin,
               IF Falsy(b.xMax, TRUE) THEN Max(AttrValues(data, xAttr)) ELSE b.xMax,
               IF Falsy(b.yMin, b.str)
               THEN (Min(AttrValues(data, yAttr)) \div processAxisRound) * processAxisRound
               ELSE b.yMin,
               IF Falsy(b.yMax, b.str)
               THEN CeilDiv(Max(AttrValues(data, yAttr)), processAxisRound) * processAxisRound
               ELSE b.yMax,
               b.str /\ ~Falsy(b.yMin, b.str) /\ ~Falsy(b.yMax, b.str))

\* pushIfChanged leaving the stack as it is
pushNever(stack, l) == stack

\* pushIfChanged pushing the limits whatever the top of the stack is
pushAlways(stack, l) == Append(stack, l)

\* only put limits on stack if empty or top != limits
pushIfChanged(limitStack, l) ==
    IF Len(limitStack) # 0 /\ areLimitsEqual(l, limitStack[Len(limitStack)])
    THEN limitStack
    ELSE Append(limitStack, l)

\* d3 tickIncrement(start, stop, 10) for 10 <= stop - start < 1000; below 10
\* the step is a negative power of ten times 1, 2 or 5, of which every integer
\* is a multiple
tickIncrement(start, stop) ==
    LET d == stop - start
    IN  IF d < 10 THEN 0
        ELSE IF d < 100 THEN
            (IF d * d >= 5000 THEN 10 ELSE IF d * d >= 1000 THEN 5 ELSE IF d * d >= 200 THEN 2 ELSE 1)
        ELSE
            (IF d * d >= 500000 THEN 100 ELSE IF d * d >= 100000 THEN 50
             ELSE IF d * d >= 20000 THEN 20 ELSE 10)

\* d3 scaleLinear().domain([lo, hi]).nice(), integer lo <= hi
nice(lo, hi) ==
    LET step1 == tickIncrement(lo, hi)
        start == IF step1 > 0 THEN (lo \div step1) * step1 ELSE lo
        stop  == IF step1 > 0 THEN CeilDiv(hi, step1) * step1 ELSE hi
        step2 == IF step1 > 0 THEN tickIncrement(start, stop) ELSE 0
    IN  IF step2 > 0 THEN <<(start \div step2) * step2, CeilDiv(stop, step2) * step2>>
        ELSE <<start, stop>>

YDomain(l) == nice(l.yMin, l.yMax)

\* xScale.invert(px): a Date, so the interpolated value is truncated
xInvert(l, px) ==
    IF l.xMax = l.xMin THEN l.xMin
    ELSE TruncDiv(l.xMin * (XRange[2] - XRange[1]) + (px - XRange[1]) * (l.xMax - l.xMin),
                  XRange[2] - XRange[1])

\* yScale.invert(px) times the length of the range, clamped to the domain
yInvertNum(l, px) ==
    LET d == YDomain(l)
        n == d[1] * (YRange[1] - YRange[2]) + (YRange[1] - px) * (d[2] - d[1])
    IN  IF n < d[1] * (YRange[1] - YRange[2]) THEN d[1] * (YRange[1] - YRange[2])
        ELSE IF n > d[2] * (YRange[1] - YRange[2]) THEN d[2] * (YRange[1] - YRange[2])
        ELSE n
yInvertExact(l, px) == yInvertNum(l, px) % (YRange[1] - YRange[2]) = 0
yInvert(l, px) == yInvertNum(l, px) \div (YRange[1] - YRange[2])

\* a drag rectangle: x, y of the drag start, width and height as dragUpdate left them
Box(x, y, w, h) == [x |-> x, y |-> y, w |-> w, h |-> h]

\* cx of a circle lies in [xs, xe]: cx = xScale(t), compared without dividing
CxInside(l, t, xs, xe) ==
    IF l.xMax = l.xMin THEN 2 * xs <= XRange[1] + XRange[2] /\ XRange[1] + XRange[2] <= 2 * xe
    ELSE LET cxNum == XRange[1] * (l.xMax - l.xMin) + (t - l.xMin) * (XRange[2] - XRange[1])
         IN  xs * (l.xMax - l.xMin) <= cxNum /\ cxNum <= xe * (l.xMax - l.xMin)

CyInside(l, v, ys, ye) ==
    LET d == YDomain(l)
    IN  IF d[2] = d[1] THEN 2 * ys <= YRange[1] + YRange[2] /\ YRange[1] + YRange[2] <= 2 * ye
        ELSE LET cyNum == YRange[1] * (d[2] - d[1]) - (v - d[1]) * (YRange[1] - YRange[2])
             IN  ys * (d[2] - d[1]) <= cyNum /\ cyNum <= ye * (d[2] - d[1])

\* zoomLimits converting the pixel Y bounds without swapping them
zoomLimitsUnswapped(l, box) ==
    LET x0 == xInvert(l, box.x)
        x1 == xInvert(l, box.x + box.w)
        y0 == yInvert(l, box.y)
        y1 == yInvert(l, box.y + box.h)
    IN  IF x0 < l.xMin \/ x1 > l.xMax THEN Limits(l.xMin, l.xMax, y0, y1, FALSE)
        ELSE IF x1 - x0 < xZoomLimit
        THEN Limits(TruncDiv(x1 + x0 - xZoomLimit, 2), TruncDiv(x1 + x0 + xZoomLimit, 2), y0, y1, FALSE)
        ELSE Limits(x0, x1, y0, y1, FALSE)

\* zoomLimits replacing only the end of the range that is out of bounds
zoomLimitsClampEach(l, box) ==
    LET x0 == xInvert(l, box.x)
        x1 == xInvert(l, box.x + box.w)
        y0 == yInvert(l, box.y + box.h)
        y1 == yInvert(l, box.y)
    IN  IF x0 < l.xMin \/ x1 > l.xMax
        THEN Limits(IF x0 < l.xMin THEN l.xMin ELSE x0, IF x1 > l.xMax THEN l.xMax ELSE x1,
                    y0, y1, FALSE)
        ELSE IF x1 - x0 < xZoomLimit
        THEN Limits(TruncDiv(x1 + x0 - xZoomLimit, 2), TruncDiv(x1 + x0 + xZoomLimit, 2), y0, y1, FALSE)
        ELSE Limits(x0, x1, y0, y1, FALSE)

\* zoomLimits without the branch of xZoomLimit
zoomLimitsNoFloor(l, box) ==
    LET x0 == xInvert(l, box.x)
        x1 == xInvert(l, box.x + box.w)
    IN  IF x0 < l.xMin \/ x1 > l.xMax
        THEN Limits(l.xMin, l.xMax, yInvert(l, box.y + box.h), yInvert(l, box.y), FALSE)
        ELSE Limits(x0, x1, yInvert(l, box.y + box.h), yInvert(l, box.y), FALSE)

\* dragEnd with shift: the limits handed to updateAxes
zoomLimits(l, box) ==
    LET x0 == xInvert(l, box.x)
        x1 == xInvert(l, box.x + box.w)
        y0 == yInvert(l, box.y + box.h)
        y1 == yInvert(l, box.y)
    IN  IF x0 < l.xMin \/ x1 > l.xMax THEN Limits(l.xMin, l.xMax, y0, y1, FALSE)
        ELSE IF x1 - x0 < xZoomLimit
        THEN Limits(TruncDiv(x1 + x0 - xZoomLimit, 2), TruncDiv(x1 + x0 + xZoomLimit, 2), y0, y1, FALSE)
        ELSE Limits(x0, x1, y0, y1, FALSE)

\* the .value of the four limit inputs as createScales left them, parsed as
\* the change handler's render will (the page runs in UTC)
DayStart(ms) == (ms \div 86400000) * 86400000
elementValues(v, l) ==
    IF l = NoLimits THEN NoLimits
    ELSE Limits(DayStart(l.xMin),
                IF v = "fixed" THEN DayStart(l.xMax) + 86340000 ELSE DayStart(l.xMax),
                IF v = "fixed" THEN l.yMin ELSE YDomain(l)[1],
                IF v = "fixed" THEN l.yMax ELSE YDomain(l)[2],
                TRUE)


(***************************************************************************)
(* Export.                                                                 *)
(***************************************************************************)
\* String(entry) of a [key, Set] entry, which Array.prototype.sort compares:
\* the key, a comma and "[object Set]"
ObjectSetString == <<91, 111, 98, 106, 101, 99, 116, 32, 83, 101, 116, 93>>
EntryString(e) == e.key \o <<CharComma>> \o ObjectSetString

\* [...entries()].sort(): ascending by String(entry)
RECURSIVE SortInsert(_, _)
SortInsert(sorted, e) ==
    IF sorted = <<>> THEN <<e>>
    ELSE IF StrLess(EntryString(e), EntryString(Head(sorted))) THEN <<e>> \o sorted
    ELSE <<Head(sorted)>> \o SortInsert(Tail(sorted), e)

RECURSIVE SortEntries(_)
SortEntries(m) == IF m = <<>> THEN <<>> ELSE SortInsert(SortEntries(Tail(m)), Head(m))

\* the entries of a Map in the order of keys
Entries(m, keys) == [i \in 1..Len(keys) |-> [key |-> keys[i], value |-> m[keys[i]]]]

\* the sequences that enumerate a set, each element once
Orders(S) == {q \in [1..Cardinality(S) -> S] : \A i, j \in 1..Cardinality(S) : q[i] = q[j] => i = j}

\* JSON.stringify(Object.fromEntries(c), mapReplacer) for c the sorted
\* entries: the members in order, each Set as the array of its elements;
\* insertion is the order in which the Map holds its keys
getJSONcontent(byD, insertion) == SortEntries(Entries(byD, insertion))

(***************************************************************************)
(* The plot.                                                               *)
(***************************************************************************)
NotPlotted == [compound |-> "none", x |-> "date", y |-> "MR"]

\* the data bound to the circles: the points of the last callback's data that
\* lie inside the limits (the variable variant filters x with the global
\* dataXDefault of config.js, the date accessor)
InsideLimits(l, d, yAttr) ==
    /\ d.date >= l.xMin /\ d.date <= l.xMax
    /\ Attr(yAttr, d) # Missing
    /\ Attr(yAttr, d) >= l.yMin /\ Attr(yAttr, d) <= l.yMax

Displayed(v, plt, l) ==
    IF plt.compound = "none" THEN <<>>
    ELSE SelectSeq([i \in 1..Len(JSONFiles[plt.compound]) |-> i],
                   LAMBDA i : InsideLimits(l, LoadData(v, plt.compound)[i], plt.y))

\* the circles inside a drag rectangle, in document order
InBox(v, plt, l, box) ==
    SelectSeq(Displayed(v, plt, l),
              LAMBDA i : LET d == LoadData(v, plt.compound)[i]
                         IN  /\ CxInside(l, Attr(plt.x, d), box.x, box.x + box.w)
                             /\ CyInside(l, Attr(plt.y, d), box.y, box.y + box.h))

KeysOf(v, c, idx) == [j \in 1..Len(idx) |-> KeyTable[v][c][idx[j]]]

\* the circles render marks: those whose key is in this.selectedDates
Marked(v, plt, l, selected) ==
    SelectSeq(Displayed(v, plt, l),
              LAMBDA i : MarkTable[v][plt.x][plt.compound][i] \in selected)

(***************************************************************************)
(* Inputs.                                                                 *)
(***************************************************************************)
DragBoxes ==
    { Box(0, 0, 2, 7),      \* the left edge
      Box(0, 0, 4, 7),      \* all but the right edge
      Box(4, 0, 3, 7),      \* the right edge
      Box(0, 0, 7, 7) }     \* everything
ZoomBoxes == {Box(1, 1, 2, 4)}
ManualInputs == {<<"yMax", 40>>, <<"xMax", 86400000>>}

(***************************************************************************)
(* State.                                                                  *)
(***************************************************************************)
st0 == Store(selectionsByCompound, selectionsByDate)

\* a handler that renders runs while fewer than MaxPending fetches are in
\* flight, none of them with given limits
CanRender ==
    /\ BagCardinality(pending) < MaxPending
    /\ \A f \in BagToSet(pending) : f.args = NoLimits

\* limitStack of DataSelector.createScales: the stack of the compound and the
\* attribute pair in use (the fixed variant has none)
limitStack ==
    IF variant = "fixed" THEN <<>>
    ELSE zoomHistory[previousCompound][joinXYStrings(dataXDefault, dataYDefault)]

\* the zoom stack a callback pushes to holds at most depth entries
StackRoom(depth) == variant = "variable" => Len(limitStack) <= depth

\* the zoom stack a callback pushes to has room for one more entry
StackHasRoom == StackRoom(MaxZoom)

\* a render whose fetch replaces the fetches in flight
IssueCancelling(pend, f) == SetToBag({f})

\* render(compound, ...) up to the fetch: this.selectedDates is re-pointed and
\* the fetch is issued
Issue(pend, f) == pend (+) SetToBag({f})


XY == {joinXYStrings(x, y) : x \in XNames, y \in YNames}
EmptyHistory(v) ==
    IF v = "fixed" THEN <<>> ELSE [c \in Compounds |-> [xy \in XY |-> <<>>]]

\* the constructor, which ends with initVars(): every compound has an empty
\* set and the first compound is being fetched
Init ==
    /\ variant \in {"fixed", "variable"}
    /\ selector = compounds[1]
    /\ previousCompound = compounds[1]
    /\ selectedDates = compounds[1]
    /\ selectionsByCompound = [c \in Compounds |-> {}]
    /\ selectionsByDate = EmptyMap
    /\ dataXDefault = "date"
    /\ dataYDefault = "MR"
    /\ zoomHistory = EmptyHistory(variant)
    /\ limits = NoLimits
    /\ plotted = NotPlotted
    /\ pending = SetToBag({Fetch(compounds[1], NoLimits)})
    /\ lastOp = "constructor"
    /\ threw = FALSE
    /\ download = <<>>

Config == <<variant>>
Axes == <<dataXDefault, dataYDefault>>
View == <<limits, plotted>>

SetStore(st) ==
    /\ selectionsByCompound' = st.byC
    /\ selectionsByDate' = st.byD
    /\ threw' = st.threw

\* updateAxes(xMin, xMax, yMin, yMax)
updateAxes(op, args) ==
    /\ SetStore(commitSelections(st0, selectedDates, selector))
    /\ selectedDates' = selector
    /\ pending' = Issue(pending, Fetch(selector, args))
    /\ lastOp' = op
    /\ download' = <<>>
    /\ UNCHANGED <<Config, Axes, View, selector, previousCompound>>

\* the change listener of the compound selector
SelectorChange(c) ==
    /\ c # selector
    /\ CanRender
    /\ SetStore(commitSelections(st0, selectedDates, previousCompound))
    /\ selector' = c
    /\ selectedDates' = c
    /\ previousCompound' = c
    /\ pending' = Issue(pending, Fetch(c, NoLimits))
    /\ lastOp' = "selectorChange"
    /\ download' = <<>>
    /\ UNCHANGED <<Config, Axes, View, zoomHistory>>

\* the click listener of the graph, on the circle of data point i
ClickPoint(i) ==
    /\ i \in Range(Displayed(variant, plotted, limits))
    /\ SetStore(updateClicked(st0, selectedDates, previousCompound,
                              KeyTable[variant][plotted.compound][i], TRUE))
    /\ lastOp' = "click"
    /\ download' = <<>>
    /\ UNCHANGED <<Config, Axes, View, selector, previousCompound, selectedDates,
                   zoomHistory, pending>>

\* dragEnd without shift
DragSelect(box, alt) ==
    /\ plotted.compound # "none"
    /\ SetStore(ClickEach(st0, selectedDates, previousCompound,
                          KeysOf(variant, plotted.compound,
                                 InBox(variant, plotted, limits, box)), alt))
    /\ lastOp' = IF alt THEN "altDrag" ELSE "drag"
    /\ download' = <<>>
    /\ UNCHANGED <<Config, Axes, View, selector, previousCompound, selectedDates,
                   zoomHistory, pending>>

\* dragEnd with shift, over a rectangle whose corners invert to whole numbers
\* and whose height is not zero
dragEndShift(box) ==
    /\ limits # NoLimits
    /\ yInvertExact(limits, box.y) /\ yInvertExact(limits, box.y + box.h)
    /\ zoomLimits(limits, box).yMin < zoomLimits(limits, box).yMax
    /\ zoomHistory' = IF variant = "fixed" THEN Append(zoomHistory, limits) ELSE zoomHistory
    /\ updateAxes("zoom", zoomLimits(limits, box))

\* dragEnd with shift while the zoom history has room
DragZoom(box) ==
    /\ StackHasRoom
    /\ variant = "fixed" => Len(zoomHistory) < MaxZoom
    /\ dragEndShift(box)

\* the change listeners of the four limit inputs, after the user set one
limitInputChange(field, value) ==
    /\ limits # NoLimits
    /\ LET args == [elementValues(variant, limits) EXCEPT ![field] = value]
       IN  /\ args.xMin < args.xMax /\ args.yMin < args.yMax
           /\ updateAxes("manualLimits", args)
    /\ UNCHANGED zoomHistory

ManualLimits(field, value) == StackHasRoom /\ limitInputChange(field, value)

ResetAxes ==
    /\ updateAxes("resetAxes", NoLimits)
    /\ UNCHANGED zoomHistory

\* the click listener of Undo Zoom
UndoZoom ==
    IF variant = "fixed" THEN
        IF zoomHistory = <<>> THEN
            /\ lastOp' = "undoZoom"
            /\ threw' = FALSE
            /\ download' = <<>>
            /\ UNCHANGED <<Config, Axes, View, selector, previousCompound, selectedDates,
                           selectionsByCompound, selectionsByDate, zoomHistory, pending>>
        ELSE
            /\ zoomHistory' = SubSeq(zoomHistory, 1, Len(zoomHistory) - 1)
            /\ updateAxes("undoZoom", zoomHistory[Len(zoomHistory)])
    ELSE
        LET xy == joinXYStrings(dataXDefault, dataYDefault)
            stack == zoomHistory[previousCompound][xy]
        IN  /\ zoomHistory' = [zoomHistory EXCEPT ![previousCompound][xy] =
                                   SubSeq(stack, 1, Len(stack) - 1)]
            /\ updateAxes("undoZoom", NoLimits)

\* the change listeners of ySelector and xSelector (DataSelector only)
AttrChange(x, y) ==
    /\ variant = "variable"
    /\ (x # dataXDefault /\ y = dataYDefault) \/ (x = dataXDefault /\ y # dataYDefault)
    /\ CanRender
    /\ dataXDefault' = x
    /\ dataYDefault' = y
    /\ selectedDates' = previousCompound
    /\ pending' = Issue(pending, Fetch(previousCompound, NoLimits))
    /\ lastOp' = "attrChange"
    /\ threw' = FALSE
    /\ download' = <<>>
    /\ UNCHANGED <<Config, View, selector, previousCompound, selectionsByCompound,
                   selectionsByDate, zoomHistory>>

\* the click listener of Save Selections
SaveSelect ==
    /\ SetStore(commitSelections(st0, selectedDates, selector))
    /\ lastOp' = "saveSelect"
    /\ download' = <<>>
    /\ UNCHANGED <<Config, Axes, View, selector, previousCompound, selectedDates,
                   zoomHistory, pending>>

\* getJSONfile
DownloadJSON ==
    LET st == commitSelections(st0, selectedDates, selector)
    IN  /\ SetStore(st)
        /\ \E insertion \in Orders(MapKeys(st.byD)) :
               download' = getJSONcontent(st.byD, insertion)
        /\ lastOp' = "downloadJSON"
        /\ UNCHANGED <<Config, Axes, View, selector, previousCompound, selectedDates,
                       zoomHistory, pending>>

\* cleanPlot(selector.value)
ClearPlot ==
    /\ CanRender
    /\ SetStore(cleanPlotSelections(st0, selector))
    /\ selectedDates' = selector
    /\ pending' = Issue(pending, Fetch(selector, NoLimits))
    /\ lastOp' = "cleanPlot"
    /\ download' = <<>>
    /\ UNCHANGED <<Config, Axes, View, selector, previousCompound, zoomHistory>>

\* initVars leaving this.selectionsByDate as it is
initVarsKeepLedger == Store([c \in Compounds |-> {}], selectionsByDate)

\* initVars: a new Set for every compound and a new selectionsByDate
initVarsStore == Store([c \in Compounds |-> {}], EmptyMap)

\* totalRefresh: initVars(), which renders the first compound, then the
\* dispatched change event, whose listener commits and renders it again
ClearAll ==
    /\ CanRender
    /\ SetStore(commitSelections(initVarsStore, compounds[1], compounds[1]))
    /\ zoomHistory' = IF variant = "fixed" THEN zoomHistory ELSE EmptyHistory(variant)
    /\ selector' = compounds[1]
    /\ previousCompound' = compounds[1]
    /\ selectedDates' = compounds[1]
    /\ pending' = Issue(Issue(pending, Fetch(compounds[1], NoLimits)),
                        Fetch(compounds[1], NoLimits))
    /\ lastOp' = "totalRefresh"
    /\ download' = <<>>
    /\ UNCHANGED <<Config, Axes, View>>

\* createScales as the callback of render calls it: the limits it returns
\* for the data of compound c, the limit arguments a and the stack in use
renderLimits(v, c, x, y, a, stack) ==
    IF v = "fixed" THEN createScalesFixed(LoadData(v, c), a)
    ELSE createScalesVariable(LoadData(v, c), a, stack, x, y)

\* the callback of the fetch f leaves at most depth entries on the zoom stack
CallbackFits(f, depth) ==
    variant = "variable" =>
        Len(pushIfChanged(limitStack, renderLimits(variant, f.compound, dataXDefault,
                                                     dataYDefault, f.args, limitStack))) <= depth

\* the callback of d3.json(filename).then in render, for the fetch f
renderThen(f) ==
    /\ f \in BagToSet(pending)
    /\ LET xy    == joinXYStrings(dataXDefault, dataYDefault)
           stack == limitStack
           lim   == renderLimits(variant, f.compound, dataXDefault, dataYDefault, f.args, stack)
           plt   == [compound |-> f.compound,
                     x |-> IF variant = "fixed" THEN "date" ELSE dataXDefault,
                     y |-> IF variant = "fixed" THEN "MR" ELSE dataYDefault]
           marks == Marked(variant, plt, lim, selectionsByCompound[selectedDates])
       IN  /\ zoomHistory' = IF variant = "fixed" THEN zoomHistory
                             ELSE [zoomHistory EXCEPT ![previousCompound][xy] =
                                       pushIfChanged(stack, lim)]
           /\ limits' = lim
           /\ plotted' = plt
           /\ SetStore(ClickEach(st0, selectedDates, previousCompound,
                                 KeysOf(variant, f.compound, marks), FALSE))
    /\ pending' = pending (-) SetToBag({f})
    /\ lastOp' = "fetchDone"
    /\ download' = <<>>
    /\ UNCHANGED <<Config, Axes, selector, previousCompound, selectedDates>>

FetchDone(f) == CallbackFits(f, MaxZoom + 1) /\ renderThen(f)

\* no fetch is in flight
Quiet == pending = EmptyBag

\* the plot of the first compound against the first x option
FirstPlot == selector = compounds[1] /\ dataXDefault = xOptions[1]

\* every handler and the fetch callback; the user changes the limits (zoom,
\* manual limits) on the first plot, and changes or restores them (Undo Zoom)
\* while no fetch is in flight
Next ==
    \/ \E c \in Compounds : SelectorChange(c)
    \/ \E i \in 1..3 : ClickPoint(i)
    \/ \E box \in DragBoxes, alt \in BOOLEAN : DragSelect(box, alt)
    \/ Quiet /\ FirstPlot /\ \E box \in ZoomBoxes : DragZoom(box)
    \/ Quiet /\ FirstPlot /\ \E in \in ManualInputs : ManualLimits(in[1], in[2])
    \/ CanRender /\ ResetAxes
    \/ Quiet /\ UndoZoom
    \/ \E x \in XNames : AttrChange(x, dataYDefault)
    \/ SaveSelect
    \/ DownloadJSON
    \/ ClearPlot
    \/ ClearAll
    \/ \E f \in BagToSet(pending) : FetchDone(f)

Spec == Init /\ [][Next]_vars

(***************************************************************************)
(* The zoom history: the handlers that change or restore the limits, each  *)
(* run after the render before it has completed, over more rectangles and  *)
(* a deeper history than Spec; nothing is selected.                        *)
(***************************************************************************)
ZoomTrials ==
    { Box(1, 1, 2, 4),      \* the left half
      Box(2, 1, 3, 4),      \* the right three quarters
      Box(2, 1, 1, 4),      \* one pixel column wide: narrower than xZoomLimit
      Box(0, 1, 3, 4),      \* starts left of the x axis
      Box(3, 1, 3, 4),      \* ends right of the x axis
      Box(1, 1, 4, 2) }     \* the upper half

\* the history in use holds fewer than depth entries below the limits in use
HistoryRoom(depth) ==
    IF variant = "fixed" THEN Len(zoomHistory) < depth ELSE StackRoom(depth)

\* the limits in use together with the history Undo Zoom pops: zoomHistory
\* in the fixed variant, limitStack in the variable one
ZoomView(lim, stack) == [lim |-> lim, stack |-> stack]
NoView == ZoomView(NoLimits, <<>>)
CurrentView == ZoomView(limits, IF variant = "fixed" THEN zoomHistory ELSE limitStack)

\* dragEnd with shift over box followed by the callback of its render; NoView
\* where dragEndShift is not enabled
zoomThenRender(v, c, x, y, view, box) ==
    IF \/ view = NoView
       \/ ~yInvertExact(view.lim, box.y) \/ ~yInvertExact(view.lim, box.y + box.h)
       \/ zoomLimits(view.lim, box).yMin >= zoomLimits(view.lim, box).yMax
    THEN NoView
    ELSE LET pushed == IF v = "fixed" THEN Append(view.stack, view.lim) ELSE view.stack
             lim == renderLimits(v, c, x, y, zoomLimits(view.lim, box), pushed)
         IN  ZoomView(lim, IF v = "fixed" THEN pushed ELSE pushIfChanged(pushed, lim))

\* the click listener of Undo Zoom followed by the callback of its render
undoThenRender(v, c, x, y, view) ==
    LET popped == SubSeq(view.stack, 1, Len(view.stack) - 1)
    IN  IF v = "fixed" THEN
            IF view.stack = <<>> THEN view
            ELSE ZoomView(renderLimits(v, c, x, y, view.stack[Len(view.stack)], <<>>), popped)
        ELSE LET lim == renderLimits(v, c, x, y, NoLimits, popped)
             IN  ZoomView(lim, pushIfChanged(popped, lim))

\* the limits of a render without limit arguments and without history
FullExtent(v, c, x, y) == renderLimits(v, c, x, y, NoLimits, <<>>)

ZoomIn(box) == HistoryRoom(MaxDepth) /\ dragEndShift(box)
ZoomManual(field, value) == HistoryRoom(MaxDepth) /\ limitInputChange(field, value)
ZoomFetchDone(f) == CallbackFits(f, MaxDepth + 1) /\ renderThen(f)

ZoomNext ==
    \/ Quiet /\ \E c \in Compounds : SelectorChange(c)
    \/ Quiet /\ FirstPlot /\ \E box \in ZoomTrials : ZoomIn(box)
    \/ Quiet /\ FirstPlot /\ \E in \in ManualInputs : ZoomManual(in[1], in[2])
    \/ Quiet /\ ResetAxes
    \/ Quiet /\ UndoZoom
    \/ Quiet /\ \E x \in XNames : AttrChange(x, dataYDefault)
    \/ Quiet /\ ClearAll
    \/ \E f \in BagToSet(pending) : ZoomFetchDone(f)

ZoomSpec == Init /\ [][ZoomNext]_vars

(***************************************************************************)
(* Overlapping renders: shift-drag zooms and Undo Zoom clicked while the   *)
(* fetches of earlier renders are still in flight, the callbacks in any    *)
(* order; the first compound stays selected, nothing is selected and the   *)
(* zooms are drawn on the full extent.                                     *)
(***************************************************************************)
MaxInFlight == 2
MaxRaceDepth == 3

RaceBoxes ==
    { Box(1, 1, 2, 4),      \* the left half
      Box(2, 1, 3, 4),      \* the right three quarters
      Box(0, 0, 7, 7) }     \* the whole plot: the limits stay as they are

\* a handler that renders runs while fewer than MaxInFlight fetches are in
\* flight and the history in use, with one entry more for every callback to
\* come, holds fewer than MaxRaceDepth entries
RaceRoom ==
    /\ BagCardinality(pending) < MaxInFlight
    /\ IF variant = "fixed" THEN Len(zoomHistory) < MaxRaceDepth
       ELSE Len(limitStack) + BagCardinality(pending) < MaxRaceDepth

\* the view is the full extent of the data
AtFullExtent == limits = FullExtent(variant, selector, dataXDefault, dataYDefault)

\* dragEnd with shift on the full extent
RaceZoom(box) == RaceRoom /\ AtFullExtent /\ dragEndShift(box)
RaceUndo == RaceRoom /\ UndoZoom
RaceFetchDone(f) == renderThen(f)

RaceNext ==
    \/ \E box \in RaceBoxes : RaceZoom(box)
    \/ RaceUndo
    \/ \E f \in BagToSet(pending) : RaceFetchDone(f)

RaceSpec == Init /\ [][RaceNext]_vars

(***************************************************************************)
(* The axis attributes: clicks and changes of the compound, of the x       *)
(* attribute and of the y attribute, each after the render before it has   *)
(* completed; the limits are always those of a render without arguments.   *)
(***************************************************************************)
AttrClick(i) == ClickPoint(i)
AttrFetchDone(f) == renderThen(f)

AttrNext ==
    \/ Quiet /\ \E c \in Compounds : SelectorChange(c)
    \/ Quiet /\ \E i \in Range(Displayed(variant, plotted, limits)) : AttrClick(i)
    \/ Quiet /\ \E x \in XNames, y \in YNames : AttrChange(x, y)
    \/ \E f \in BagToSet(pending) : AttrFetchDone(f)

AttrSpec == Init /\ [][AttrNext]_vars

(***************************************************************************)
(* Properties.                                                             *)
(***************************************************************************)
\* the (date-key, compound) pairs of a ledger and of the per-compound sets
Pairs(byD) == UNION {{<<k, c>> : c \in byD[k]} : k \in DOMAIN byD}
PairsOfSets(byC) == UNION {{<<k, c>> : k \in byC[c]} : c \in DOMAIN byC}

RemovingOps == {"click", "altDrag", "cleanPlot", "totalRefresh"}

\* C1: a step that removes a (date-key, compound) pair from selectionsByDate
\* or from selectionsByCompound is a click, an alt-drag, cleanPlot or
\* totalRefresh; a compound switch, a change of the axis limits or of an axis
\* attribute, a save, an export and a fetch callback remove none.
C1_OnlyTogglesAndClearsRemove ==
    [][(~(Pairs(selectionsByDate) \subseteq Pairs(selectionsByDate'))
        \/ ~(PairsOfSets(selectionsByCompound) \subseteq PairsOfSets(selectionsByCompound')))
       => lastOp' \in RemovingOps]_vars

\* a compound switch has run while the compound left behind has selections
C1_SwitchKeepsSelections ==
    /\ lastOp = "selectorChange"
    /\ selector = "propane"
    /\ selectionsByCompound["ethane"] # {}
    /\ \E k \in DOMAIN selectionsByDate : "ethane" \in selectionsByDate[k]

\* C2: after every handler and every callback the keys of selectionsByDate
\* are exactly the date-keys held by some compound's set, and no entry of
\* selectionsByDate is empty.
C2_LedgerKeysAreSelectedKeys ==
    /\ DOMAIN selectionsByDate = UNION {selectionsByCompound[c] : c \in Compounds}
    /\ \A k \in DOMAIN selectionsByDate : selectionsByDate[k] # {}

\* a click has run and a key that the current compound does not hold is kept
\* by another compound
C2_KeyKeptByOtherCompound ==
    /\ lastOp = "click"
    /\ \E k \in DOMAIN selectionsByDate :
           /\ k \notin selectionsByCompound[selector]
           /\ \E c \in Compounds : k \in selectionsByCompound[c]

\* C3: commitSelections(compound) leaves every key of this.selectedDates with
\* an entry of selectionsByDate that contains compound and in the set of
\* compound, and removes nothing from any entry or set.
C3_CommitAddsEverySelectedKey ==
    \A c \in Compounds :
        LET st == commitSelections(st0, selectedDates, c)
        IN  /\ \A k \in selectionsByCompound[selectedDates] :
                   MapHas(st.byD, k) /\ c \in MapGet(st.byD, k) /\ k \in st.byC[c]
            /\ Pairs(selectionsByDate) \subseteq Pairs(st.byD)
            /\ PairsOfSets(selectionsByCompound) \subseteq PairsOfSets(st.byC)

\* Save Selections has run with keys in this.selectedDates that the other
\* compound does not hold
C3_SavedWithSelection ==
    /\ lastOp = "saveSelect"
    /\ \E c \in Compounds :
           selectionsByCompound[selectedDates] \ selectionsByCompound[c] # {}

\* C4: cleanPlot(compound) removes compound from the entry of every key of
\* its set, deletes the entries left empty, empties the set and changes no
\* other member of an entry and no other compound's set.
C4_CleanPlotRemovesOnlyCompound ==
    [][lastOp' = "cleanPlot" =>
          /\ selectionsByCompound' = [selectionsByCompound EXCEPT ![selector] = {}]
          /\ DOMAIN selectionsByDate' =
                 {k \in DOMAIN selectionsByDate :
                    k \notin selectionsByCompound[selector]
                    \/ selectionsByDate[k] \ {selector} # {}}
          /\ \A k \in DOMAIN selectionsByDate' :
                 selectionsByDate'[k] =
                     IF k \in selectionsByCompound[selector]
                     THEN selectionsByDate[k] \ {selector}
                     ELSE selectionsByDate[k]]_vars

\* ethane has been cleared and a date keeps {propane}
C4_SharedDateKeepsPropane ==
    /\ lastOp = "cleanPlot"
    /\ selector = "ethane"
    /\ selectionsByCompound["ethane"] = {}
    /\ \E k \in DOMAIN selectionsByDate : selectionsByDate[k] = {"propane"}

\* a ledger without the compound c: c removed from every entry, the entries
\* that held c alone deleted
LedgerWithout(byD, c) ==
    [k \in {j \in DOMAIN byD : byD[j] \ {c} # {}} |-> byD[k] \ {c}]

\* C5 as stated: commitSelections(c) followed by cleanPlot(c) restores the
\* pre-commit entry (or its absence) of every date-key held by c alone, and
\* the entry of a shared date-key keeps the other compounds.
C5_CommitThenCleanRestores ==
    \A c \in Compounds :
        LET committed == commitSelections(st0, selectedDates, c)
            cleaned == cleanPlotSelections(committed, c)
            OnlyC(k) == \A c2 \in Compounds \ {c} : k \notin selectionsByCompound[c2]
        IN  \A k \in selectionsByCompound[selectedDates] \cup selectionsByCompound[c] :
                IF OnlyC(k)
                THEN /\ MapHas(cleaned.byD, k) <=> MapHas(selectionsByDate, k)
                     /\ MapHas(selectionsByDate, k) =>
                            MapGet(cleaned.byD, k) = MapGet(selectionsByDate, k)
                ELSE /\ MapHas(cleaned.byD, k)
                     /\ MapGet(cleaned.byD, k) = MapGet(selectionsByDate, k) \ {c}

\* C5 amended: commitSelections(c) followed by cleanPlot(c) leaves
\* selectionsByDate as it was before the commit with c removed from every
\* entry and the entries that held c alone deleted, and leaves the set of c
\* empty: a date-key with no entry before the commit has none after, the
\* entries c had committed earlier are not restored, and shared date-keys
\* keep the other compounds.
C5_CommitThenCleanRemovesCompound ==
    \A c \in Compounds :
        LET committed == commitSelections(st0, selectedDates, c)
            cleaned == cleanPlotSelections(committed, c)
        IN  /\ cleaned.byD = LedgerWithout(selectionsByDate, c)
            /\ cleaned.byC = [selectionsByCompound EXCEPT ![c] = {}]

\* the current compound holds a date-key alone and shares another one
C5_ExclusiveAndSharedKeys ==
    /\ \E k \in DOMAIN selectionsByDate : selectionsByDate[k] = {selector}
    /\ \E k \in DOMAIN selectionsByDate : selectionsByDate[k] = Compounds
    /\ lastOp = "saveSelect"

\* the date-keys of the data files
AllKeys == UNION {Range(KeyTable[variant][c]) : c \in Compounds}

\* the sequences of at most MaxCalls date-keys
KeySeqs == UNION {[1..n -> AllKeys] : n \in 0..MaxCalls}

\* C6: non-removing updateClicked calls on an empty selection leave the set
\* with as many members as there are distinct date-keys among the calls, and
\* a non-removing call on a key of the set changes neither the set nor
\* selectionsByDate.
C6_NonRemovingCallsCountDistinctKeys ==
    /\ selectionsByCompound[selectedDates] = {} =>
           \A keys \in KeySeqs :
               Cardinality(ClickEach(st0, selectedDates, previousCompound, keys, FALSE)
                               .byC[selectedDates]) = Cardinality(Range(keys))
    /\ \A k \in selectionsByCompound[selectedDates] :
           LET st == updateClicked(st0, selectedDates, previousCompound, k, FALSE)
           IN  st.byC = selectionsByCompound /\ st.byD = selectionsByDate /\ ~st.threw

\* a drag over points of which two share a date-key has left two keys
C6_DragOverSharedKey ==
    /\ lastOp = "drag"
    /\ Len(Displayed(variant, plotted, limits)) = 3
    /\ Cardinality(selectionsByCompound[selectedDates]) = 2

\* C7: a click on a point whose date-key is selected for the current compound
\* leaves the key out of the compound's set and the compound out of the
\* key's entry, the entry deleted if no other compound holds the key; a
\* click on a point whose key is not selected adds it; a second click on the
\* same point restores both maps.
C7_ClickTogglesAndSecondClickRestores ==
    \A i \in Range(Displayed(variant, plotted, limits)) :
        LET k == KeyTable[variant][plotted.compound][i]
            once == updateClicked(st0, selectedDates, previousCompound, k, TRUE)
            twice == updateClicked(once, selectedDates, previousCompound, k, TRUE)
        IN  /\ ~once.threw /\ ~twice.threw
            /\ k \in selectionsByCompound[selectedDates] =>
                   /\ k \notin once.byC[selectedDates]
                   /\ MapHas(once.byD, k) => previousCompound \notin MapGet(once.byD, k)
                   /\ MapHas(once.byD, k) <=>
                          \E c \in Compounds \ {previousCompound} : k \in selectionsByCompound[c]
            /\ k \notin selectionsByCompound[selectedDates] =>
                   /\ k \in once.byC[selectedDates]
                   /\ MapHas(once.byD, k) /\ previousCompound \in MapGet(once.byD, k)
            /\ twice.byC = selectionsByCompound
            /\ twice.byD = selectionsByDate

\* a click has removed the only selection: no entry is left
C7_ClickRemovedLastSelection ==
    /\ lastOp = "click"
    /\ selectionsByDate = EmptyMap
    /\ \A c \in Compounds : selectionsByCompound[c] = {}

\* C8 as stated: a drag with alt unselects every point of the box that was
\* selected and selects every point that was not; a drag without alt selects
\* every point of the box and removes no selection.
C8_DragSelectsOrTogglesEveryPoint ==
    \A box \in DragBoxes, alt \in BOOLEAN :
        LET keys == KeysOf(variant, plotted.compound, InBox(variant, plotted, limits, box))
            st == ClickEach(st0, selectedDates, previousCompound, keys, alt)
            was == selectionsByCompound[selectedDates]
        IN  plotted.compound # "none" =>
                IF alt
                THEN \A k \in Range(keys) : k \in st.byC[selectedDates] <=> k \notin was
                ELSE /\ Range(keys) \subseteq st.byC[selectedDates]
                     /\ was \subseteq st.byC[selectedDates]
                     /\ Pairs(selectionsByDate) \subseteq Pairs(st.byD)

\* C9 as stated: the exported entries are in ascending order of their
\* date-keys, each with the compounds of its entry.
C9_ExportAscendingByKey ==
    /\ \A i, j \in 1..Len(download) : i < j => StrLess(download[i].key, download[j].key)
    /\ \A i \in 1..Len(download) :
           /\ MapHas(selectionsByDate, download[i].key)
           /\ download[i].value = MapGet(selectionsByDate, download[i].key)

StoreEmpty ==
    /\ selectionsByDate = EmptyMap
    /\ \A c \in Compounds : selectionsByCompound[c] = {}

\* C10: after totalRefresh selectionsByDate and every compound's set are
\* empty, and the callbacks of the fetches in flight leave them empty.
C10_TotalRefreshEmptiesSelections ==
    /\ [](lastOp = "totalRefresh" => StoreEmpty)
    /\ [][StoreEmpty /\ lastOp' = "fetchDone" => StoreEmpty']_vars

\* totalRefresh has run while the fetch of propane was in flight
C10_RefreshWithFetchInFlight ==
    /\ lastOp = "totalRefresh"
    /\ plotted.compound = "ethane"
    /\ \E f \in BagToSet(pending) : f.compound = "propane"


(***************************************************************************)
(* Properties of the zoom history.                                         *)
(***************************************************************************)
\* the sequences of at most MaxUndo zoom rectangles
BoxSeqs == UNION {[1..n -> ZoomTrials] : n \in 1..MaxUndo}

\* the view after the zooms of boxes, each to limits that differ from the
\* view before it; NoView if one of them does not
RECURSIVE ZoomAll(_, _, _, _, _, _)
ZoomAll(v, c, x, y, view, boxes) ==
    IF boxes = <<>> \/ view = NoView THEN view
    ELSE LET next == zoomThenRender(v, c, x, y, view, Head(boxes))
         IN  IF next.lim = view.lim THEN NoView
             ELSE ZoomAll(v, c, x, y, next, Tail(boxes))

RECURSIVE UndoTimes(_, _, _, _, _, _)
UndoTimes(v, c, x, y, view, n) ==
    IF n = 0 THEN view ELSE UndoTimes(v, c, x, y, undoThenRender(v, c, x, y, view), n - 1)

\* C11: from the full-extent view of a compound, N zooms, each to limits
\* that differ from the view before it, followed by N Undo Zoom clicks, each
\* render completing before the next action, leave the full-extent limits
\* in use; a zoom and an Undo Zoom of the page end in the view that
\* zoomThenRender and undoThenRender give.
C11_UndoReturnsToFullExtent ==
    /\ [](Quiet /\ plotted.compound = previousCompound
            /\ limits = FullExtent(variant, plotted.compound, plotted.x, plotted.y)
          => \A boxes \in BoxSeqs :
                LET zoomed == ZoomAll(variant, plotted.compound, plotted.x, plotted.y,
                                      CurrentView, boxes)
                IN  zoomed # NoView =>
                        UndoTimes(variant, plotted.compound, plotted.x, plotted.y,
                                  zoomed, Len(boxes)).lim = limits)
    /\ [][Quiet /\ lastOp' \in {"zoom", "undoZoom"} /\ pending' # EmptyBag =>
            LET after == IF lastOp' = "undoZoom"
                         THEN {undoThenRender(variant, selector, plotted.x, plotted.y,
                                              CurrentView)}
                         ELSE {zoomThenRender(variant, selector, plotted.x, plotted.y,
                                              CurrentView, box) : box \in ZoomTrials}
            IN  \A f \in BagToSet(pending') :
                    \E view \in after :
                        /\ view # NoView
                        /\ view.lim = renderLimits(variant, f.compound, plotted.x, plotted.y,
                                                   f.args, limitStack')
                        /\ variant = "fixed" => view.stack = zoomHistory']_vars

\* an Undo Zoom on a zoomed view has issued the render that restores the
\* full extent
C11_UndoRestoringFullExtent ==
    /\ lastOp = "undoZoom"
    /\ limits # FullExtent(variant, plotted.compound, plotted.x, plotted.y)
    /\ \E f \in BagToSet(pending) :
           renderLimits(variant, f.compound, plotted.x, plotted.y, f.args, limitStack)
               = FullExtent(variant, plotted.compound, plotted.x, plotted.y)

\* C12: in the variable variant no zoom stack of a compound and an attribute
\* pair holds two adjacent entries that areLimitsEqual calls equal.
C12_NoAdjacentEqualEntries ==
    variant = "variable" =>
        \A c \in Compounds, xy \in XY :
            \A i \in 1..(Len(zoomHistory[c][xy]) - 1) :
                ~areLimitsEqual(zoomHistory[c][xy][i], zoomHistory[c][xy][i + 1])

\* a callback has completed and left three entries on the stack in use, the
\* limits in use on top
C12_RenderOnDeepStack ==
    /\ variant = "variable"
    /\ lastOp = "fetchDone"
    /\ Len(limitStack) >= 3
    /\ limits = limitStack[Len(limitStack)]

\* the history the Undo Zoom listener pops from while compound c is displayed
undoHistory(c) == IF variant = "fixed" THEN zoomHistory ELSE zoomHistory[c]

\* C13 as stated: zoom history is kept per compound in both variants: a
\* zoom, from the drag to the end of its callback, changes only the history
\* that Undo Zoom pops from while the displayed compound is displayed.
C13_ZoomHistoryPerCompound ==
    [][lastOp' \in {"zoom", "fetchDone"} =>
          \A c \in Compounds \ {selector} : undoHistory(c)' = undoHistory(c)]_vars

\* C14 as stated: totalRefresh leaves the zoom history of every compound
\* (and attribute pair) empty, in both variants.
C14_TotalRefreshEmptiesZoomHistory ==
    lastOp = "totalRefresh" => zoomHistory = EmptyHistory(variant)

\* the values of the active X and Y attribute in the data of compound c
ActiveX(c) == AttrValues(LoadData(variant, c), IF variant = "fixed" THEN "date" ELSE dataXDefault)
ActiveY(c) == AttrValues(LoadData(variant, c), IF variant = "fixed" THEN "MR" ELSE dataYDefault)

\* C15 as stated: the render of Reset Axes, which calls createScales without
\* overrides, ends with the x limits at the minimum and maximum of the
\* data's active X values and the y limits those of the data extent,
\* whatever the zoom history holds.
C15_ResetAxesGivesDataExtent ==
    [][lastOp = "resetAxes" /\ lastOp' = "fetchDone" =>
          /\ limits'.xMin = Min(ActiveX(selector))
          /\ limits'.xMax = Max(ActiveX(selector))
          /\ limits'.yMin = FullExtent(variant, selector, dataXDefault, dataYDefault).yMin
          /\ limits'.yMax = FullExtent(variant, selector, dataXDefault, dataYDefault).yMax
          /\ limits'.yMin <= Min(ActiveY(selector))
          /\ limits'.yMax >= Max(ActiveY(selector))]_vars

\* the drawn X range of a rectangle, converted with xScale.invert
DrawnStart(box) == xInvert(limits, box.x)
DrawnEnd(box) == xInvert(limits, box.x + box.w)

\* the limits in use after the zoom over box and its render
ZoomResult(box) ==
    zoomThenRender(variant, selector, plotted.x, plotted.y, CurrentView, box).lim

\* the zooms that can be drawn on the view in use
Drawable(box) ==
    /\ Quiet /\ plotted.compound = selector
    /\ zoomThenRender(variant, selector, plotted.x, plotted.y, CurrentView, box) # NoView

C17_OutOfBoundsZoomKeepsXLimits ==
    /\ [](\A box \in ZoomTrials :
              Drawable(box)
              /\ (DrawnStart(box) < limits.xMin \/ DrawnEnd(box) > limits.xMax)
              => /\ ZoomResult(box).xMin = limits.xMin
                 /\ ZoomResult(box).xMax = limits.xMax)
    /\ [][lastOp' = "zoom" =>
            /\ ~threw'
            /\ \A f \in BagToSet(pending') :
                   \E box \in ZoomTrials :
                       /\ f.args = zoomLimits(limits, box)
                       /\ (DrawnStart(box) < limits.xMin \/ DrawnEnd(box) > limits.xMax)
                          => f.args.xMin = limits.xMin /\ f.args.xMax = limits.xMax]_vars

\* a zoom whose range starts left of the axis and ends inside it has issued
\* its render with the X limits in use
C17_ZoomStartingLeftOfAxis ==
    /\ lastOp = "zoom"
    /\ ~threw
    /\ \E box \in ZoomTrials, f \in BagToSet(pending) :
           /\ f.args = zoomLimits(limits, box)
           /\ DrawnStart(box) < limits.xMin /\ DrawnEnd(box) < limits.xMax
           /\ f.args.xMin = limits.xMin /\ f.args.xMax = limits.xMax

\* the fetch whose callback a step has run
Completed(f) == f \in BagToSet(pending) /\ CopiesIn(f, pending') < CopiesIn(f, pending)

\* C18: in the fixed variant a callback whose render had no yMax override
\* leaves yMax at the least multiple of yRound that is not below the data
\* maximum, one whose render had no yMin override leaves yMin at 0, and
\* yMin differs from 0 only after a render with a yMin override.
C18_FixedYLimitsRounded ==
    [][variant = "fixed" /\ lastOp' = "fetchDone" =>
          \A f \in BagToSet(pending) :
              Completed(f) =>
                  LET m == Max(AttrValues(LoadData(variant, f.compound), "MR"))
                  IN  /\ f.args.yMax = Null =>
                             /\ limits'.yMax % yRound = 0
                             /\ limits'.yMax >= m
                             /\ limits'.yMax - yRound < m
                      /\ f.args.yMin = Null => limits'.yMin = 0
                      /\ limits'.yMin # 0 => f.args.yMin # Null]_vars

\* the first render of the fixed variant has completed on data whose maximum
\* is not a multiple of yRound
C18_FixedFullExtentRendered ==
    /\ variant = "fixed"
    /\ lastOp = "fetchDone"
    /\ limits.yMin = 0
    /\ limits.yMax = 2 * yRound
    /\ Max(AttrValues(LoadData(variant, plotted.compound), "MR")) % yRound # 0

\* C19 as stated: in the variable variant a callback whose render had no y
\* overrides and whose zoom stack is empty leaves yMax = ceil(m / r) * r and
\* yMin = floor(n / r) * r, for the maximum m and the minimum n of the
\* active Y attribute and r = yRound.
C19_VariableYLimitsRounded ==
    [][variant = "variable" /\ lastOp' = "fetchDone" =>
          \A f \in BagToSet(pending) :
              Completed(f) /\ f.args.yMin = Null /\ f.args.yMax = Null /\ limitStack = <<>> =>
                  LET ys == AttrValues(LoadData(variant, f.compound), dataYDefault)
                  IN  /\ limits'.yMax = CeilDiv(Max(ys), yRound) * yRound
                      /\ limits'.yMin = (Min(ys) \div yRound) * yRound]_vars

\* the text "YYYY-MM-DD HH:MM"
DateKeyText(y, mo, d, h, mi) ==
    Pad4(y) \o <<CharDash>> \o Pad2(mo) \o <<CharDash>> \o Pad2(d) \o <<CharSpace>>
    \o Pad2(h) \o <<CharColon>> \o Pad2(mi)

\* every loaded point has the instant (e + 3600 * UTCoffset) * 1000 for its
\* epoch e, and every date-key in use is the key of such an instant
ConvertedBeforeUse ==
    /\ \A c \in Compounds : \A i \in 1..Len(JSONFiles[c]) :
           /\ LoadData(variant, c)[i].date = (JSONFiles[c][i].date + 3600 * UTCoffset) * 1000
           /\ KeyTable[variant][c][i] = keyOfEpoch(JSONFiles[c][i].date, SaltOf(variant, JSONFiles[c][i]))
    /\ \A k \in DOMAIN selectionsByDate :
           \E c \in Compounds : \E i \in 1..Len(JSONFiles[c]) :
               k = formatISODate((JSONFiles[c][i].date + 3600 * UTCoffset) * 1000,
                                 SaltOf(variant, JSONFiles[c][i]))

\* C20 as stated: every loaded epoch e is converted to the instant
\* (e + 3600 * UTCoffset) * 1000 before use, and for e = 1500000000 and
\* UTCoffset = -2 the date-key is 2017-07-13 23:40.
C20_EpochKeyExampleAsStated ==
    /\ ConvertedBeforeUse
    /\ UTCoffset = -2 => keyOfEpoch(1500000000, <<>>) = DateKeyText(2017, 7, 13, 23, 40)

\* C20 amended: every loaded epoch e is converted to the instant
\* (e + 3600 * UTCoffset) * 1000 before use, and for e = 1500000000 and
\* UTCoffset = -2 the date-key is 2017-07-14 00:40.
C20_EpochKeyExample ==
    /\ ConvertedBeforeUse
    /\ UTCoffset = -2 => keyOfEpoch(1500000000, <<>>) = DateKeyText(2017, 7, 14, 0, 40)

\* a click has stored the key 1970-01-01 00:10 of a point loaded with the
\* epoch 7800
C20_ConvertedKeySelected ==
    /\ lastOp = "click"
    /\ DateKeyText(1970, 1, 1, 0, 10) \in DOMAIN selectionsByDate
    /\ JSONFiles[plotted.compound][1].date = 7800

\* the date-keys of the points of compound c
PointKeys(v, c) == {KeyTable[v][c][i] : i \in 1..Len(JSONFiles[c])}

\* C21: in every reachable state, every date-key in the set of a compound is
\* the date-key of a point of that compound's own data
C21_SelectedKeysBelongToCompound ==
    \A c \in Compounds : selectionsByCompound[c] \subseteq PointKeys(variant, c)

\* C22: no handler takes a fetch in flight away, and the callback of a fetch
\* draws the points of that fetch's compound, sets the limits from its data
\* and marks against the selectedDates and previousCompound of the moment it
\* runs, whatever compound is selected by then; so the callback that
\* completes last decides what is displayed.
C22_LastCallbackSetsDisplay ==
    [][/\ lastOp' # "fetchDone" =>
              \A f \in BagToSet(pending) : CopiesIn(f, pending') >= CopiesIn(f, pending)
       /\ lastOp' = "fetchDone" =>
              \E f \in BagToSet(pending) :
                  LET st == ClickEach(st0, selectedDates, previousCompound,
                                      KeysOf(variant, f.compound,
                                             Marked(variant, plotted', limits',
                                                    selectionsByCompound[selectedDates])),
                                      FALSE)
                  IN  /\ pending' = pending (-) SetToBag({f})
                      /\ plotted'.compound = f.compound
                      /\ limits' = renderLimits(variant, f.compound, dataXDefault,
                                                dataYDefault, f.args, limitStack)
                      /\ selectionsByCompound' = st.byC
                      /\ selectionsByDate' = st.byD]_vars

\* no fetch is in flight and the points displayed are those of a compound
\* other than the selected one
C22_StalePlotDisplayed ==
    /\ pending = EmptyBag
    /\ lastOp = "fetchDone"
    /\ plotted.compound \in Compounds \ {selector}

\* the history Undo Zoom pops: zoomHistory in the fixed variant, the stack of
\* the compound and attribute pair in use in the variable one
HistoryInUse == IF variant = "fixed" THEN zoomHistory ELSE limitStack

\* C23 as stated: when the render of a shift-drag zoom has completed, the top
\* entry of the zoom stack in use equals the newly active limits, in both
\* variants.
C23_ZoomLeavesNewLimitsOnTop ==
    [][lastOp = "zoom" /\ lastOp' = "fetchDone" =>
          /\ Len(HistoryInUse') > 0
          /\ HistoryInUse'[Len(HistoryInUse')] = limits']_vars

\* C23 amended: when the render of a shift-drag zoom has completed, the top
\* entry of the zoom stack in use equals the newly active limits in the
\* variable variant and the limits that were active before the zoom in the
\* fixed variant.
C23_ZoomLeavesNewOrFormerLimitsOnTop ==
    [][lastOp = "zoom" /\ lastOp' = "fetchDone" =>
          /\ Len(HistoryInUse') > 0
          /\ HistoryInUse'[Len(HistoryInUse')] =
                 IF variant = "fixed" THEN limits ELSE limits']_vars

\* fixed variant: the render of a zoom on the full extent has completed; the
\* history holds the full extent, the limits in use differ from it
C23_FixedZoomRendered ==
    /\ variant = "fixed"
    /\ lastOp = "fetchDone"
    /\ pending = EmptyBag
    /\ zoomHistory = <<FullExtent(variant, selector, dataXDefault, dataYDefault)>>
    /\ limits # zoomHistory[1]
    /\ ~limits.str

\* C24: in the fixed variant zoomHistory never holds two adjacent equal
\* entries, whatever zooms and undos were clicked, also while fetches were in
\* flight
C24_FixedNoAdjacentEqualEntries ==
    variant = "fixed" =>
        \A i \in 1..(Len(zoomHistory) - 1) :
            ~areLimitsEqual(zoomHistory[i], zoomHistory[i + 1])

\* C25: at the end of every handler, in both variants, this.selectedDates
\* holds exactly the keys of the set of previousCompound, previousCompound is
\* the value of the compound selector, and every key of this.selectedDates is
\* in selectionsByDate with previousCompound in its entry: no selection is
\* in progress that the set and the ledger do not hold.
C25_SelectedDatesIsSetOfSelectedCompound ==
    /\ selectionsByCompound[selectedDates] = selectionsByCompound[previousCompound]
    /\ selectedDates = previousCompound
    /\ previousCompound = selector
    /\ \A k \in selectionsByCompound[selectedDates] :
           MapHas(selectionsByDate, k) /\ previousCompound \in MapGet(selectionsByDate, k)

\* a click has selected a point after the switch to the second compound
C25_ClickAfterSwitch ==
    /\ lastOp = "click"
    /\ selector = compounds[2]
    /\ selectionsByCompound[selectedDates] # {}

\* C26: after every handler and every callback selectionsByDate is the
\* inverse relation of selectionsByCompound: compound c is in the entry of
\* date-key k exactly when k is in the set of c.
C26_LedgerIsInverseOfSets ==
    \A c \in Compounds, k \in AllKeys \cup DOMAIN selectionsByDate :
        (MapHas(selectionsByDate, k) /\ c \in MapGet(selectionsByDate, k))
            <=> k \in selectionsByCompound[c]

\* a callback has completed while both compounds hold the same date-key and
\* the first compound holds another one alone
C26_CallbackWithSharedAndOwnKeys ==
    /\ lastOp = "fetchDone"
    /\ \E k \in DOMAIN selectionsByDate : selectionsByDate[k] = Compounds
    /\ \E k \in DOMAIN selectionsByDate : selectionsByDate[k] = {compounds[1]}

\* C27: the removal branch of updateClicked never finds selectionsByDate
\* without an entry for the key it removes: no handler and no callback has
\* raised the TypeError of selectionsByDate.get(key).delete, every key a
\* click or an alt-drag could remove has an entry, and every key a click or
\* an alt-drag removed from the set in use had one.
C27_RemovalFindsLedgerEntry ==
    /\ [](~threw)
    /\ [](\A i \in Range(Displayed(variant, plotted, limits)) :
              LET k == KeyTable[variant][plotted.compound][i]
              IN  k \in selectionsByCompound[selectedDates] => MapHas(selectionsByDate, k))
    /\ [][lastOp' \in {"click", "altDrag"} =>
              \A k \in selectionsByCompound[selectedDates] \ selectionsByCompound'[selectedDates] :
                  MapHas(selectionsByDate, k)]_vars

\* an alt-drag has left the set of the selected compound empty while the
\* other compound keeps a date-key of a displayed point
C27_AltDragLeftOtherCompoundsKey ==
    /\ lastOp = "altDrag"
    /\ plotted.compound = selector
    /\ selectionsByCompound[selector] = {}
    /\ \E i \in Range(Displayed(variant, plotted, limits)) :
           LET k == KeyTable[variant][plotted.compound][i]
           IN  MapHas(selectionsByDate, k) /\ selector \notin MapGet(selectionsByDate, k)

\* C28: the callback of a render leaves selectionsByCompound and
\* selectionsByDate as they are, in both variants and for every x attribute:
\* it marks the displayed points whose date-key is selected, and the key by
\* which it finds them is the key updateClicked stores.
C28_CallbackLeavesSelections ==
    /\ [][lastOp' = "fetchDone" =>
              /\ selectionsByCompound' = selectionsByCompound
              /\ selectionsByDate' = selectionsByDate]_vars
    /\ [](\A i \in Range(Displayed(variant, plotted, limits)) :
              MarkTable[variant][plotted.x][plotted.compound][i]
                  = KeyTable[variant][plotted.compound][i])

\* the callback of a render with the limit arguments a, run on a view
callbackOn(v, c, x, y, view, a) ==
    LET lim == renderLimits(v, c, x, y, a, view.stack)
    IN  ZoomView(lim, IF v = "fixed" THEN view.stack ELSE pushIfChanged(view.stack, lim))

\* the pop of DataSelector's undoZoom listener, run on a view
popOn(view) == ZoomView(view.lim, SubSeq(view.stack, 1, Len(view.stack) - 1))

\* C29: in the variable variant, Undo Zoom clicked while the fetch of a zoom's
\* render is in flight ends, whichever of the two callbacks runs first, with
\* the limits and the zoom stack that Undo Zoom clicked after that callback
\* ends with.  The views are computed from the state in which the zoom's
\* fetch is in flight; the undo listener and the callback act on the view as
\* popOn and callbackOn do.
C29_UndoDuringZoomFetchAsAfter ==
    /\ [](variant = "variable" /\ lastOp = "zoom" /\ BagCardinality(pending) = 1 =>
              \A f \in BagToSet(pending) :
                  LET Then(view, a) == callbackOn(variant, selector, dataXDefault,
                                                  dataYDefault, view, a)
                      after == undoThenRender(variant, selector, dataXDefault, dataYDefault,
                                              Then(CurrentView, f.args))
                      zoomFirst == Then(Then(popOn(CurrentView), f.args), NoLimits)
                      undoFirst == Then(Then(popOn(CurrentView), NoLimits), f.args)
                  IN  zoomFirst = after /\ undoFirst = after)
    /\ [][variant = "variable" =>
              /\ lastOp' = "undoZoom" => CurrentView' = popOn(CurrentView)
              /\ lastOp' = "fetchDone" =>
                     \E f \in BagToSet(pending) :
                         /\ pending' = pending (-) SetToBag({f})
                         /\ CurrentView' = callbackOn(variant, selector, dataXDefault,
                                                      dataYDefault, CurrentView, f.args)]_vars

\* the rectangles a drag can leave: dragStart sets width and height to 1 and
\* dragUpdate sets them to the distance from the start to the pointer when
\* that is not negative; the pointer stays on the svg.  Every start and
\* width with three choices of the vertical side, every start and height with
\* three choices of the horizontal side
Pixels == 0..(width - 1)
DrawnBoxes ==
    LET Sides == {s \in Pixels \X (0..width) : s[1] + s[2] <= width}
    IN  {Box(s[1], t[1], s[2], t[2]) : s \in Sides, t \in {<<0, 0>>, <<1, 4>>, <<3, 0>>}}
        \cup {Box(t[1], s[1], t[2], s[2]) : s \in Sides, t \in {<<0, 0>>, <<1, 2>>, <<2, 0>>}}

\* C30: a shift-drag zoom does not invert the axes: on limits with
\* xMin < xMax and yMin < yMax, the limits dragEnd hands to updateAxes have
\* xMin < xMax and yMin <= yMax for every rectangle (of the rectangles whose
\* Y bounds convert to whole numbers), and so have the arguments of the
\* render every zoom issues.
C30_ZoomKeepsAxisOrder ==
    /\ [](limits # NoLimits /\ limits.xMin < limits.xMax /\ limits.yMin < limits.yMax =>
              \A box \in DrawnBoxes :
                  yInvertExact(limits, box.y) /\ yInvertExact(limits, box.y + box.h) =>
                      LET z == zoomLimits(limits, box)
                      IN  z.xMin < z.xMax /\ z.yMin <= z.yMax)
    /\ [][lastOp' = "zoom" /\ limits.xMin < limits.xMax /\ limits.yMin < limits.yMax =>
              \A f \in BagToSet(pending') :
                  /\ f.args # NoLimits
                  /\ f.args.xMin < f.args.xMax /\ f.args.yMin <= f.args.yMax]_vars

\* a zoom over the upper half has issued its render: the lower Y limit has
\* risen and the limits are in order
C30_UpperHalfZoomIssued ==
    /\ lastOp = "zoom"
    /\ \E f \in BagToSet(pending) :
           /\ f.args.yMin > limits.yMin
           /\ f.args.yMin < f.args.yMax
           /\ f.args.xMin < f.args.xMax

====
